---------------------------- MODULE Spec2Model ----------------------------
(***************************************************************************)
(* Model of src/main.py, the "Ancient Language Researcher Backend": an     *)
(* in-memory identity list (users), a per-user document context mapping    *)
(* (user_contexts) and the six HTTP handlers sign, Cancel_membership,      *)
(* login, logout, upload and query.                                        *)
(*                                                                         *)
(* Spec     runs the handlers one at a time, each request to completion.   *)
(* SpecConc runs requests in NumWorkers concurrent workers; a handler is   *)
(*          split at every access to the shared globals.                   *)
(*                                                                         *)
(* Python values: a str is a TLA+ string; an Optional value is a sequence  *)
(* of length at most one (None is << >>, the value x is << x >>).          *)
(***************************************************************************)
EXTENDS Integers, Sequences, FiniteSets, TLC

None == << >>

Some(x) == << x >>

(***************************************************************************)
(* Request inputs.                                                         *)
(***************************************************************************)
Usernames == {"", "alice", "bob"}

Passwords == {"pw1", "pw2"}

\* class User(BaseModel): username, password
User == [username : Usernames, password : Passwords]

\* request.cookies.get("username"): None when the cookie is absent
Cookies == {None} \cup {Some(u) : u \in Usernames}

\* file.filename of the multipart upload
Filenames == {None, Some("notes.txt"), Some("a.PDF"), Some("pdf")}

\* the bytes of the uploaded file (await file.read())
FileBytes == {"", "%PDF"}

\* outcomes of pymupdf.open + pymupdf4llm.to_markdown: a text or an exception
Texts == {"", "doc1", "doc2"}

Extractions == [ok : {TRUE}, text : Texts, detail : {""}]
                 \cup [ok : {FALSE}, text : {""}, detail : {"no objects found"}]

\* class QueryRequest(BaseModel): query
Queries == {"q1", "q2"}

\* outcomes of requests.post(.../answer) + raise_for_status + json
LlmOutcomes == [raised : {FALSE}, payload : {[answer |-> "canned"]}, detail : {""}]
                 \cup [raised : {TRUE}, payload : {[answer |-> ""]},
                       detail : {"connection refused", "500 Server Error"}]

(***************************************************************************)
(* HTTPException details (the messages of main.py, named by their class).  *)
(***************************************************************************)
LoginRequired == "login required"

InvalidUser == "invalid user"

AlreadyExists == "username already exists"

InvalidCredentials == "wrong username or password"

UnsupportedFormat == "only PDF files can be uploaded"

EmptyInput == "empty file"

ExtractionError == "PDF parsing failed: "

NoContext == "upload a document first"

Apology == "Sorry, cannot connect to the model server. ("

PreviewLen == 200

(***************************************************************************)
(* Bounds of the model.                                                    *)
(***************************************************************************)
\* users never grows beyond MaxUsers identities
MaxUsers == 2

\* the number of requests SpecConc serves at the same time
NumWorkers == 2

(***************************************************************************)
(* Python helpers.                                                         *)
(***************************************************************************)
\* truth value of an Optional[str]: None and "" are falsy
Falsy(opt) == opt = None \/ opt[1] = ""

\* any(u.username == username for u in users)
UsernameExists(us, username) == \E i \in 1..Len(us) : us[i].username = username

\* the credential test with the username and the password matched on any two identities
CredentialsMatch_any_pair(us, user) ==
    /\ \E i \in 1..Len(us) : us[i].username = user.username
    /\ \E i \in 1..Len(us) : us[i].password = user.password

\* any(u.username == user.username and u.password == user.password for u in users)
CredentialsMatch(us, user) ==
    \E i \in 1..Len(us) : us[i].username = user.username /\ us[i].password = user.password

\* the filter with its condition inverted
WithoutUser_inverted(us, username) == SelectSeq(us, LAMBDA u : u.username = username)

\* [u for u in users if u.username != username]
WithoutUser(us, username) == SelectSeq(us, LAMBDA u : u.username # username)

LowerChar(c) ==
    CASE c = "A" -> "a"
      [] c = "P" -> "p"
      [] c = "D" -> "d"
      [] c = "F" -> "f"
      [] OTHER -> c

RECURSIVE Lower(_)
\* str.lower()
Lower(s) == IF Len(s) = 0 THEN ""
            ELSE LowerChar(SubSeq(s, 1, 1)) \o Lower(SubSeq(s, 2, Len(s)))

\* str.endswith(suffix)
EndsWith(s, suffix) ==
    /\ Len(s) >= Len(suffix)
    /\ SubSeq(s, Len(s) - Len(suffix) + 1, Len(s)) = suffix

\* the extension test without the dot
IsPdfName_no_dot(fname) == EndsWith(Lower(IF Falsy(fname) THEN "" ELSE fname[1]), "pdf")

\* (file.filename or "").lower().endswith(".pdf")
IsPdfName(fname) == EndsWith(Lower(IF Falsy(fname) THEN "" ELSE fname[1]), ".pdf")

\* the filenames of Filenames that pass the extension test
PdfFilenames == {fname \in Filenames : IsPdfName(fname)}

\* user_contexts.get(username)
ContextGet(ctxs, username) ==
    IF username \in DOMAIN ctxs THEN Some(ctxs[username]) ELSE None

\* the store that adds the new text to the text already held
ContextPut_append(ctxs, username, text) ==
    [k \in DOMAIN ctxs \cup {username} |->
        IF k # username THEN ctxs[k]
        ELSE IF username \in DOMAIN ctxs THEN ctxs[username] \o text ELSE text]

\* user_contexts[username] = full_text
ContextPut(ctxs, username, text) ==
    [k \in DOMAIN ctxs \cup {username} |-> IF k = username THEN text ELSE ctxs[k]]

\* del user_contexts[username]
ContextDel(ctxs, username) == [k \in DOMAIN ctxs \ {username} |-> ctxs[k]]

\* the preview that marks only a text it has cut
Preview_marker_when_cut(text) ==
    IF Len(text) <= PreviewLen THEN text ELSE SubSeq(text, 1, PreviewLen) \o "..."

\* full_text[:200] + "..."
Preview(text) ==
    (IF Len(text) <= PreviewLen THEN text ELSE SubSeq(text, 1, PreviewLen)) \o "..."

\* get_current_user without the check that the user exists
get_current_user_any(cookie, us) ==
    IF Falsy(cookie)
    THEN [ok |-> FALSE, username |-> "", status |-> 401, detail |-> LoginRequired]
    ELSE [ok |-> TRUE, username |-> cookie[1], status |-> 200, detail |-> ""]

\* get_current_user: the resolved username, or the 401 it raises
get_current_user(cookie, us) ==
    IF Falsy(cookie)
    THEN [ok |-> FALSE, username |-> "", status |-> 401, detail |-> LoginRequired]
    ELSE IF ~UsernameExists(us, cookie[1])
    THEN [ok |-> FALSE, username |-> "", status |-> 401, detail |-> InvalidUser]
    ELSE [ok |-> TRUE, username |-> cookie[1], status |-> 200, detail |-> ""]

\* llm_response with the exception's detail left out of the apology
llm_response_no_detail(outcome) ==
    IF outcome.raised THEN [answer |-> Apology \o ")"]
    ELSE outcome.payload

\* llm_response: the collaborator's json, or the apology built from the exception
llm_response(outcome) ==
    IF outcome.raised THEN [answer |-> Apology \o outcome.detail \o ")"]
    ELSE outcome.payload


(***************************************************************************)
(* State.                                                                  *)
(*   users          the global list users (line 16)                        *)
(*   user_contexts  the global dict user_contexts (line 20)                *)
(*   resp           the HTTP response of the last request served, with the *)
(*                  calls it made to the two collaborators                 *)
(*   hist           per username, the history the properties refer to      *)
(*   workers        the requests in flight (SpecConc only)                 *)
(***************************************************************************)
VARIABLES users, user_contexts, resp, hist, workers

vars == <<users, user_contexts, resp, hist, workers>>

\* a response with nothing in it; every handler fills in its own fields
NoResp ==
    [op |-> "none", status |-> 0, detail |-> "", set_cookie |-> None,
     extract |-> None, llm |-> None, body |-> None]

\* raise HTTPException(status_code=status, detail=detail)
HTTPException(r, status, detail) == [r EXCEPT !.status = status, !.detail = detail]

\* hist[u].deregistered  u was deregistered and not registered since
\* hist[u].lastDoc       the text of u's latest successful upload since u's
\*                       latest registration
\* hist[u].oldDoc        an earlier, deregistered, lifecycle of u had uploaded
NoHist == [deregistered |-> FALSE, lastDoc |-> None, oldDoc |-> FALSE]

HistSign(h, username) ==
    [h EXCEPT ![username] = [deregistered |-> FALSE, lastDoc |-> None, oldDoc |-> @.oldDoc]]

HistCancel(h, username) ==
    [h EXCEPT ![username] = [deregistered |-> TRUE, lastDoc |-> None,
                             oldDoc |-> @.oldDoc \/ @.lastDoc # None]]

HistUpload(h, username, text) == [h EXCEPT ![username].lastDoc = Some(text)]

Idle == [pc |-> "idle"]

Init ==
    /\ users = << >>
    /\ user_contexts = [k \in {} |-> ""]
    /\ resp = NoResp
    /\ hist = [u \in Usernames |-> NoHist]
    /\ workers = << >>

(***************************************************************************)
(* The handlers, each run to completion (Spec).                            *)
(***************************************************************************)
\* sign without the duplicate check's early exit: the later registration wins
sign_overwrite(user) ==
    /\ users' = Append(WithoutUser(users, user.username), user)
    /\ hist' = IF UsernameExists(users, user.username) THEN hist
               ELSE HistSign(hist, user.username)
    /\ resp' = [NoResp EXCEPT !.op = "sign", !.status = 200,
                              !.body = Some([message |-> "welcome", username |-> user.username])]
    /\ UNCHANGED <<user_contexts, workers>>

\* POST /sign
sign(user) ==
    LET r == [NoResp EXCEPT !.op = "sign"] IN
    /\ IF UsernameExists(users, user.username)
       THEN /\ resp' = HTTPException(r, 400, AlreadyExists)
            /\ UNCHANGED <<users, hist>>
       ELSE /\ users' = Append(users, user)
            /\ hist' = HistSign(hist, user.username)
            /\ resp' = [r EXCEPT !.status = 200,
                                 !.body = Some([message |-> "welcome", username |-> user.username])]
    /\ UNCHANGED <<user_contexts, workers>>

\* Cancel_membership without the deletion of the context
cancel_membership_keeps_context(cookie) ==
    LET r == [NoResp EXCEPT !.op = "Cancel_membership"]
        cu == get_current_user(cookie, users) IN
    /\ IF ~cu.ok
       THEN /\ resp' = HTTPException(r, cu.status, cu.detail)
            /\ UNCHANGED <<users, hist>>
       ELSE /\ users' = WithoutUser(users, cu.username)
            /\ hist' = HistCancel(hist, cu.username)
            /\ resp' = [r EXCEPT !.status = 200, !.set_cookie = Some("delete"),
                                 !.body = Some([message |-> "membership cancelled"])]
    /\ UNCHANGED <<user_contexts, workers>>

\* POST /Cancel_membership
cancel_membership(cookie) ==
    LET r == [NoResp EXCEPT !.op = "Cancel_membership"]
        cu == get_current_user(cookie, users) IN
    /\ IF ~cu.ok
       THEN /\ resp' = HTTPException(r, cu.status, cu.detail)
            /\ UNCHANGED <<users, user_contexts, hist>>
       ELSE /\ users' = WithoutUser(users, cu.username)
            /\ user_contexts' = IF cu.username \in DOMAIN user_contexts
                                THEN ContextDel(user_contexts, cu.username)
                                ELSE user_contexts
            /\ hist' = HistCancel(hist, cu.username)
            /\ resp' = [r EXCEPT !.status = 200, !.set_cookie = Some("delete"),
                                 !.body = Some([message |-> "membership cancelled"])]
    /\ UNCHANGED workers

\* POST /login
login(user) ==
    LET r == [NoResp EXCEPT !.op = "login"] IN
    /\ IF ~CredentialsMatch(users, user)
       THEN resp' = HTTPException(r, 401, InvalidCredentials)
       ELSE resp' = [r EXCEPT !.status = 200, !.set_cookie = Some(<<"set", user.username>>),
                              !.body = Some([message |-> "hello", username |-> user.username])]
    /\ UNCHANGED <<users, user_contexts, hist, workers>>

\* logout behind the session check of the other handlers
logout_requires_session(cookie) ==
    LET r == [NoResp EXCEPT !.op = "logout"]
        cu == get_current_user(cookie, users) IN
    /\ IF ~cu.ok
       THEN resp' = HTTPException(r, cu.status, cu.detail)
       ELSE resp' = [r EXCEPT !.status = 200, !.set_cookie = Some("delete"),
                              !.body = Some([message |-> "logged out"])]
    /\ UNCHANGED <<users, user_contexts, hist, workers>>

\* POST /logout
logout(cookie) ==
    /\ resp' = [NoResp EXCEPT !.op = "logout", !.status = 200,
                              !.set_cookie = Some("delete"),
                              !.body = Some([message |-> "logged out"])]
    /\ UNCHANGED <<users, user_contexts, hist, workers>>

\* upload with the check of the body ahead of the check of the filename
upload_empty_first(cookie, fname, bytes, extraction) ==
    LET r == [NoResp EXCEPT !.op = "upload"]
        cu == get_current_user(cookie, users) IN
    /\ IF ~cu.ok
       THEN /\ resp' = HTTPException(r, cu.status, cu.detail)
            /\ UNCHANGED <<user_contexts, hist>>
       ELSE IF bytes = ""
       THEN /\ resp' = HTTPException(r, 400, EmptyInput)
            /\ UNCHANGED <<user_contexts, hist>>
       ELSE IF fname \notin PdfFilenames
       THEN /\ resp' = HTTPException(r, 400, UnsupportedFormat)
            /\ UNCHANGED <<user_contexts, hist>>
       ELSE IF ~extraction.ok
       THEN /\ resp' = HTTPException([r EXCEPT !.extract = Some(bytes)], 500,
                                     ExtractionError \o extraction.detail)
            /\ UNCHANGED <<user_contexts, hist>>
       ELSE /\ user_contexts' = ContextPut(user_contexts, cu.username, extraction.text)
            /\ hist' = HistUpload(hist, cu.username, extraction.text)
            /\ resp' = [r EXCEPT !.status = 200, !.extract = Some(bytes),
                                 !.body = Some([ok |-> TRUE, user |-> cu.username,
                                                text_length |-> Len(extraction.text),
                                                preview |-> Preview(extraction.text)])]
    /\ UNCHANGED <<users, workers>>

\* POST /upload
upload(cookie, fname, bytes, extraction) ==
    LET r == [NoResp EXCEPT !.op = "upload"]
        cu == get_current_user(cookie, users) IN
    /\ IF ~cu.ok
       THEN /\ resp' = HTTPException(r, cu.status, cu.detail)
            /\ UNCHANGED <<user_contexts, hist>>
       ELSE IF fname \notin PdfFilenames
       THEN /\ resp' = HTTPException(r, 400, UnsupportedFormat)
            /\ UNCHANGED <<user_contexts, hist>>
       ELSE IF bytes = ""
       THEN /\ resp' = HTTPException(r, 400, EmptyInput)
            /\ UNCHANGED <<user_contexts, hist>>
       ELSE IF ~extraction.ok
       THEN /\ resp' = HTTPException([r EXCEPT !.extract = Some(bytes)], 500,
                                     ExtractionError \o extraction.detail)
            /\ UNCHANGED <<user_contexts, hist>>
       ELSE /\ user_contexts' = ContextPut(user_contexts, cu.username, extraction.text)
            /\ hist' = HistUpload(hist, cu.username, extraction.text)
            /\ resp' = [r EXCEPT !.status = 200, !.extract = Some(bytes),
                                 !.body = Some([ok |-> TRUE, user |-> cu.username,
                                                text_length |-> Len(extraction.text),
                                                preview |-> Preview(extraction.text)])]
    /\ UNCHANGED <<users, workers>>

\* POST /query
query(cookie, q, outcome) ==
    LET r == [NoResp EXCEPT !.op = "query"]
        cu == get_current_user(cookie, users)
        context == ContextGet(user_contexts, cu.username) IN
    /\ IF ~cu.ok
       THEN resp' = HTTPException(r, cu.status, cu.detail)
       ELSE IF Falsy(context)
       THEN resp' = HTTPException(r, 400, NoContext)
       ELSE resp' = [r EXCEPT !.status = 200,
                              !.llm = Some([query |-> q, context |-> context[1]]),
                              !.body = Some([ok |-> TRUE, user |-> cu.username, query |-> q,
                                             result |-> llm_response(outcome)])]
    /\ UNCHANGED <<users, user_contexts, hist, workers>>

\* the inputs a request consumes: the file is read only after the session and
\* the filename are accepted, the extraction runs only on a non-empty file and
\* the answering service is called only with a context
UploadReads(cookie, fname) == get_current_user(cookie, users).ok /\ fname \in PdfFilenames

QueryAsks(cookie) ==
    /\ get_current_user(cookie, users).ok
    /\ ~Falsy(ContextGet(user_contexts, cookie[1]))

NotRead == ""

NotExtracted == [ok |-> FALSE, text |-> "", detail |-> ""]

NotAsked == [raised |-> FALSE, payload |-> [answer |-> ""], detail |-> ""]

\* a registration that would append is served while users has room for it
Sign ==
    \E user \in User :
        /\ UsernameExists(users, user.username) \/ Len(users) < MaxUsers
        /\ sign(user)

CancelMembership == \E cookie \in Cookies : cancel_membership(cookie)

Login == \E user \in User : login(user)

Logout == \E cookie \in Cookies : logout(cookie)

Upload ==
    \E cookie \in Cookies, fname \in Filenames :
        \E bytes \in IF UploadReads(cookie, fname) THEN FileBytes ELSE {NotRead} :
            \E extraction \in IF UploadReads(cookie, fname) /\ bytes # ""
                               THEN Extractions ELSE {NotExtracted} :
                upload(cookie, fname, bytes, extraction)

Query ==
    \E cookie \in Cookies, q \in Queries :
        \E outcome \in IF QueryAsks(cookie) THEN LlmOutcomes ELSE {NotAsked} :
            query(cookie, q, outcome)

Next == Sign \/ CancelMembership \/ Login \/ Logout \/ Upload \/ Query

Spec == Init /\ [][Next]_vars

(***************************************************************************)
(* The uploads of one account (SpecPreview): the handlers of Spec, with    *)
(* every input of upload and with extractions that return texts shorter    *)
(* than, as long as and longer than PreviewLen.                            *)
(***************************************************************************)
RECURSIVE Fill(_)
\* a text of n characters: halves of letters, joined
Fill(n) ==
    IF n <= Len("abcdefghij") THEN SubSeq("abcdefghij", 1, n)
    ELSE Fill(n \div 2) \o Fill(n - (n \div 2))

\* texts to_markdown can return: empty, short, one short of the preview's
\* length, exactly it, and longer by a letter, by one to four dots, by a line
PreviewTexts ==
    {"", "doc1", Fill(PreviewLen - 1), Fill(PreviewLen),
     Fill(PreviewLen) \o "k", Fill(PreviewLen) \o ".", Fill(PreviewLen) \o "..",
     Fill(PreviewLen) \o "...", Fill(PreviewLen) \o "....",
     Fill(PreviewLen) \o ".k", Fill(PreviewLen) \o " and a last line"}

PreviewExtractions == [ok : {TRUE}, text : PreviewTexts, detail : {""}]

UploadLong ==
    \E cookie \in Cookies, extraction \in PreviewExtractions :
        upload(cookie, Some("a.PDF"), "%PDF", extraction)

\* the one account that uploads them
PreviewUser == [username : {"alice"}, password : {"pw1"}]

SignPreview ==
    \E user \in PreviewUser :
        /\ UsernameExists(users, user.username) \/ Len(users) < MaxUsers
        /\ sign(user)

NextPreview == SignPreview \/ CancelMembership \/ Upload \/ UploadLong

SpecPreview == Init /\ [][NextPreview]_vars

(***************************************************************************)
(* The handlers under concurrent requests (SpecConc).  The def handlers    *)
(* run in the thread pool and upload awaits file.read(), so requests       *)
(* interleave; nothing in main.py locks users or user_contexts.  A handler *)
(* is one step per access to a shared global; what it does between two     *)
(* accesses touches locals only and belongs to the earlier step.           *)
(* workers[w] is the request worker w is serving: its position (pc) and    *)
(* its local variables.  hist is the history of Spec and is not kept here. *)
(***************************************************************************)
Workers == 1..NumWorkers

ConcUser == [username : {"alice", "bob"}, password : {"pw1"}]

ConcCookies == {None, Some("alice"), Some("bob")}

ConcExtractions == {e \in Extractions : e.text = "doc1" \/ ~e.ok}

ConcQueries == {"q1"}

InitConc ==
    /\ users = << >>
    /\ user_contexts = [k \in {} |-> ""]
    /\ resp = NoResp
    /\ hist = [u \in Usernames |-> NoHist]
    /\ workers = [w \in Workers |-> Idle]

\* worker w answers its request with r and is free again
Respond(w, r) ==
    /\ resp' = r
    /\ workers' = [workers EXCEPT ![w] = Idle]

\* worker w goes on to its next access with the locals in local
Goto(w, local) ==
    /\ workers' = [workers EXCEPT ![w] = local]
    /\ UNCHANGED resp

\* the registrations that passed the duplicate check and have yet to append
Appending == {w \in Workers : workers[w].pc = "sign_append"}

\* sign, line 51: the duplicate check
SignCheck(w, user) ==
    /\ workers[w].pc = "idle"
    /\ IF UsernameExists(users, user.username)
       THEN Respond(w, HTTPException([NoResp EXCEPT !.op = "sign"], 400, AlreadyExists))
       ELSE /\ Len(users) + Cardinality(Appending) < MaxUsers
            /\ Goto(w, [pc |-> "sign_append", user |-> user])
    /\ UNCHANGED <<users, user_contexts, hist>>

\* sign, lines 54-55: the append
SignAppend(w) ==
    /\ workers[w].pc = "sign_append"
    /\ users' = Append(users, workers[w].user)
    /\ Respond(w, [NoResp EXCEPT !.op = "sign", !.status = 200,
                                 !.body = Some([message |-> "welcome",
                                                username |-> workers[w].user.username])])
    /\ UNCHANGED <<user_contexts, hist>>

\* cancel_membership, line 61: the session
CancelResolve(w, cookie) ==
    LET cu == get_current_user(cookie, users) IN
    /\ workers[w].pc = "idle"
    /\ IF ~cu.ok
       THEN Respond(w, HTTPException([NoResp EXCEPT !.op = "Cancel_membership"],
                                     cu.status, cu.detail))
       ELSE Goto(w, [pc |-> "cancel_filter", username |-> cu.username])
    /\ UNCHANGED <<users, user_contexts, hist>>

\* cancel_membership, line 65: the list comprehension reads users
CancelFilter(w) ==
    /\ workers[w].pc = "cancel_filter"
    /\ Goto(w, [pc |-> "cancel_rebind", username |-> workers[w].username,
                filtered |-> WithoutUser(users, workers[w].username)])
    /\ UNCHANGED <<users, user_contexts, hist>>

\* cancel_membership, line 65: the new list is bound to users
CancelRebind(w) ==
    /\ workers[w].pc = "cancel_rebind"
    /\ users' = workers[w].filtered
    /\ Goto(w, [pc |-> "cancel_context", username |-> workers[w].username])
    /\ UNCHANGED <<user_contexts, hist>>

\* cancel_membership, line 68: is there a context
CancelContext(w) ==
    /\ workers[w].pc = "cancel_context"
    /\ IF workers[w].username \in DOMAIN user_contexts
       THEN Goto(w, [pc |-> "cancel_delete", username |-> workers[w].username])
       ELSE Respond(w, [NoResp EXCEPT !.op = "Cancel_membership", !.status = 200,
                                      !.set_cookie = Some("delete"),
                                      !.body = Some([message |-> "membership cancelled"])])
    /\ UNCHANGED <<users, user_contexts, hist>>

\* cancel_membership, lines 69-73: del raises KeyError (a 500) when another
\* request has deleted the entry since line 68
CancelDelete(w) ==
    /\ workers[w].pc = "cancel_delete"
    /\ IF workers[w].username \in DOMAIN user_contexts
       THEN /\ user_contexts' = ContextDel(user_contexts, workers[w].username)
            /\ Respond(w, [NoResp EXCEPT !.op = "Cancel_membership", !.status = 200,
                                         !.set_cookie = Some("delete"),
                                         !.body = Some([message |-> "membership cancelled"])])
       ELSE /\ UNCHANGED user_contexts
            /\ Respond(w, HTTPException([NoResp EXCEPT !.op = "Cancel_membership"],
                                        500, "KeyError"))
    /\ UNCHANGED <<users, hist>>

\* login reads users once
LoginConc(w, user) ==
    /\ workers[w].pc = "idle"
    /\ login(user)

\* logout reads nothing
LogoutConc(w, cookie) ==
    /\ workers[w].pc = "idle"
    /\ logout(cookie)

\* upload, lines 104-124: the session, the checks of the file and the extraction
UploadResolve(w, cookie, fname, bytes, extraction) ==
    LET r == [NoResp EXCEPT !.op = "upload"]
        cu == get_current_user(cookie, users) IN
    /\ workers[w].pc = "idle"
    /\ IF ~cu.ok
       THEN Respond(w, HTTPException(r, cu.status, cu.detail))
       ELSE IF fname \notin PdfFilenames
       THEN Respond(w, HTTPException(r, 400, UnsupportedFormat))
       ELSE IF bytes = ""
       THEN Respond(w, HTTPException(r, 400, EmptyInput))
       ELSE IF ~extraction.ok
       THEN Respond(w, HTTPException([r EXCEPT !.extract = Some(bytes)], 500,
                                     ExtractionError \o extraction.detail))
       ELSE Goto(w, [pc |-> "upload_store", username |-> cu.username, bytes |-> bytes,
                     full_text |-> extraction.text])
    /\ UNCHANGED <<users, user_contexts, hist>>

\* upload, lines 127-141: the store
UploadStore(w) ==
    /\ workers[w].pc = "upload_store"
    /\ user_contexts' = ContextPut(user_contexts, workers[w].username, workers[w].full_text)
    /\ Respond(w, [NoResp EXCEPT !.op = "upload", !.status = 200,
                                 !.extract = Some(workers[w].bytes),
                                 !.body = Some([ok |-> TRUE, user |-> workers[w].username,
                                                text_length |-> Len(workers[w].full_text),
                                                preview |-> Preview(workers[w].full_text)])])
    /\ UNCHANGED <<users, hist>>

\* query, line 181: the session
QueryResolve(w, cookie, q) ==
    LET cu == get_current_user(cookie, users) IN
    /\ workers[w].pc = "idle"
    /\ IF ~cu.ok
       THEN Respond(w, HTTPException([NoResp EXCEPT !.op = "query"], cu.status, cu.detail))
       ELSE Goto(w, [pc |-> "query_get", username |-> cu.username, q |-> q])
    /\ UNCHANGED <<users, user_contexts, hist>>

\* query, lines 184-201: the context and the call of the answering service
QueryGet(w, outcome) ==
    LET r == [NoResp EXCEPT !.op = "query"]
        context == ContextGet(user_contexts, workers[w].username) IN
    /\ workers[w].pc = "query_get"
    /\ IF Falsy(context)
       THEN Respond(w, HTTPException(r, 400, NoContext))
       ELSE Respond(w, [r EXCEPT !.status = 200,
                                 !.llm = Some([query |-> workers[w].q, context |-> context[1]]),
                                 !.body = Some([ok |-> TRUE, user |-> workers[w].username,
                                                query |-> workers[w].q,
                                                result |-> llm_response(outcome)])])
    /\ UNCHANGED <<users, user_contexts, hist>>

NextConc ==
    \E w \in Workers :
        \/ \E user \in ConcUser : SignCheck(w, user)
        \/ SignAppend(w)
        \/ \E cookie \in ConcCookies : CancelResolve(w, cookie)
        \/ CancelFilter(w)
        \/ CancelRebind(w)
        \/ CancelContext(w)
        \/ CancelDelete(w)
        \/ \E user \in ConcUser : LoginConc(w, user)
        \/ \E cookie \in ConcCookies : LogoutConc(w, cookie)
        \/ \E cookie \in ConcCookies, fname \in Filenames :
              \E bytes \in IF UploadReads(cookie, fname) THEN FileBytes ELSE {NotRead} :
                  \E extraction \in IF UploadReads(cookie, fname) /\ bytes # ""
                                     THEN ConcExtractions ELSE {NotExtracted} :
                      UploadResolve(w, cookie, fname, bytes, extraction)
        \/ UploadStore(w)
        \/ \E cookie \in ConcCookies, q \in ConcQueries : QueryResolve(w, cookie, q)
        \/ \E outcome \in IF /\ workers[w].pc = "query_get"
                             /\ ~Falsy(ContextGet(user_contexts, workers[w].username))
                          THEN LlmOutcomes ELSE {NotAsked} :
              QueryGet(w, outcome)

SpecConc == InitConc /\ [][NextConc]_vars

(***************************************************************************)
(* The claims about requests served one at a time (Spec).                  *)
(***************************************************************************)
Registered(username) == UsernameExists(users, username)

\* the request resolves to a username: it carries a cookie naming an identity
Resolved(cookie) == get_current_user(cookie, users).ok

\* C1: a sign for a username that is already registered, whatever its password,
\* is answered 400 AlreadyExists and leaves users (so the stored password too)
\* and user_contexts as the first registration left them.
C1_DuplicateSignRejected ==
    [][\A user \in User :
          (resp'.op = "sign" /\ Registered(user.username) /\ sign(user))
              => /\ resp'.status = 400
                 /\ resp'.detail = AlreadyExists
                 /\ users' = users
                 /\ user_contexts' = user_contexts]_vars

\* a duplicate sign was answered while an identity with a context exists
C1_Witness ==
    /\ resp.op = "sign"
    /\ resp.detail = AlreadyExists
    /\ DOMAIN user_contexts # {}

\* C2: every username with an entry in user_contexts has an identity in users.
C2_ContextHasIdentity == \A username \in DOMAIN user_contexts : Registered(username)

\* a deregistration succeeded while some other user keeps a context
C2_Witness ==
    /\ resp.op = "Cancel_membership"
    /\ resp.status = 200
    /\ DOMAIN user_contexts # {}

\* C3: from the deregistration of U until U is registered again, a query that
\* presents the cookie U is answered 401 and the answering service is not called.
C3_QueryAfterDeregistration ==
    [][\A username \in Usernames, q \in Queries, outcome \in LlmOutcomes \cup {NotAsked} :
          (resp'.op = "query" /\ hist[username].deregistered /\ query(Some(username), q, outcome))
              => /\ resp'.status = 401
                 /\ resp'.llm = None]_vars

\* every username but the empty one is deregistered, and a query that presented
\* one of them (InvalidUser is raised for no other cookie) was answered 401
C3_Witness ==
    /\ resp.op = "query"
    /\ resp.status = 401
    /\ resp.detail = InvalidUser
    /\ \A username \in Usernames \ {""} : hist[username].deregistered

\* C4 as claimed: after a successful upload by U of a document whose extracted
\* text is D, and until U's next successful upload or deregistration, every
\* query by U calls the answering service with the question and with exactly D.
C4_QueryForwardsUploadedText ==
    [][\A username \in Usernames, q \in Queries, outcome \in LlmOutcomes \cup {NotAsked} :
          (resp'.op = "query" /\ hist[username].lastDoc # None /\ query(Some(username), q, outcome))
              => resp'.llm = Some([query |-> q, context |-> hist[username].lastDoc[1]])]_vars

\* C5: a deregistration removes the identity and the context of its user, and
\* a query by a re-registered user whose earlier lifecycle had uploaded, with no
\* upload since the re-registration, is answered 400 NoContext without a call
\* to the answering service.
C5_ContextNotInherited ==
    [][/\ \A cookie \in Cookies :
             (resp'.op = "Cancel_membership" /\ Resolved(cookie) /\ cancel_membership(cookie))
                 => /\ ~UsernameExists(users', cookie[1])
                    /\ cookie[1] \notin DOMAIN user_contexts'
       /\ \A username \in Usernames, q \in Queries, outcome \in LlmOutcomes \cup {NotAsked} :
             (/\ resp'.op = "query"
              /\ Registered(username)
              /\ username # ""
              /\ hist[username].oldDoc
              /\ hist[username].lastDoc = None
              /\ query(Some(username), q, outcome))
                 => /\ resp'.status = 400
                    /\ resp'.detail = NoContext
                    /\ resp'.llm = None]_vars

\* the only identity is a re-registered one whose earlier lifecycle had
\* uploaded, and its query (NoContext is raised for resolved users only) was
\* answered NoContext
C5_Witness ==
    /\ resp.op = "query"
    /\ resp.detail = NoContext
    /\ Len(users) = 1
    /\ hist[users[1].username].oldDoc
    /\ hist[users[1].username].lastDoc = None

\* the filenames of Filenames that do not end in ".pdf", whatever their case
NotPdfNames == {None, Some("notes.txt"), Some("pdf")}

\* C6 as claimed: an upload whose filename does not end in .pdf is answered
\* 400 UnsupportedFormat whatever its cookie, and leaves user_contexts alone.
C6_NotPdfAlwaysUnsupportedFormat ==
    [][\A cookie \in Cookies, fname \in NotPdfNames :
          (resp'.op = "upload" /\ upload(cookie, fname, NotRead, NotExtracted))
              => /\ resp'.status = 400
                 /\ resp'.detail = UnsupportedFormat
                 /\ user_contexts' = user_contexts]_vars

\* C6 as amended: such an upload is answered 400 UnsupportedFormat when its
\* cookie resolves and 401 when it does not, and never changes user_contexts.
C6_NotPdfRejected ==
    [][\A cookie \in Cookies, fname \in NotPdfNames :
          (resp'.op = "upload" /\ upload(cookie, fname, NotRead, NotExtracted))
              => /\ user_contexts' = user_contexts
                 /\ resp'.extract = None
                 /\ IF Resolved(cookie)
                    THEN resp'.status = 400 /\ resp'.detail = UnsupportedFormat
                    ELSE resp'.status = 401]_vars

\* an upload was answered UnsupportedFormat while a context exists
C6_Witness ==
    /\ resp.op = "upload"
    /\ resp.detail = UnsupportedFormat
    /\ DOMAIN user_contexts # {}

\* C7 as claimed: a query by a resolved identity is answered 400 NoContext
\* exactly when the identity has no successful upload since its latest
\* registration.
C7_NoContextIffNoUpload ==
    [][\A username \in Usernames, q \in Queries, outcome \in LlmOutcomes \cup {NotAsked} :
          (resp'.op = "query" /\ Resolved(Some(username)) /\ query(Some(username), q, outcome))
              => ((resp'.status = 400 /\ resp'.detail = NoContext)
                      <=> hist[username].lastDoc = None)]_vars

\* C8: when the answering service is called for a query and the call raises,
\* the query is answered 200 with a result whose answer is the apology with the
\* exception's detail in it, and users and user_contexts are unchanged.
C8_AnsweringFailureSwallowed ==
    [][\A username \in Usernames, q \in Queries, outcome \in LlmOutcomes :
          (/\ resp'.op = "query"
           /\ outcome.raised
           /\ Resolved(Some(username))
           /\ hist[username].lastDoc \notin {None, Some("")}
           /\ query(Some(username), q, outcome))
              => /\ resp'.status = 200
                 /\ resp'.llm # None
                 /\ resp'.body[1].result = [answer |-> Apology \o outcome.detail \o ")"]
                 /\ users' = users
                 /\ user_contexts' = user_contexts]_vars

\* a query was answered with the apology for a refused connection
C8_Witness ==
    /\ resp.op = "query"
    /\ resp.status = 200
    /\ resp.body[1].result.answer = Apology \o "connection refused" \o ")"

\* the identities of users, as a set
Identities == {users[i] : i \in 1..Len(users)}

\* the claim's reading of a cookie: it names an identity of users
NamesIdentity(cookie) ==
    cookie # None /\ cookie[1] \in {u.username : u \in Identities}

\* C11 as claimed: a session-gated request (Cancel_membership, upload, query)
\* is answered 401 when it carries no cookie or a cookie that names no
\* identity, and then calls nothing and changes nothing; a request whose
\* cookie names an identity passes the resolution and is served as that
\* username.
C11_SessionResolution ==
    [][/\ \A cookie \in Cookies, q \in Queries, outcome \in LlmOutcomes \cup {NotAsked} :
             (resp'.op = "query" /\ query(cookie, q, outcome))
                 => IF ~NamesIdentity(cookie)
                    THEN /\ resp'.status = 401
                         /\ resp'.llm = None
                         /\ users' = users
                         /\ user_contexts' = user_contexts
                    ELSE /\ resp'.status # 401
                         /\ resp'.body # None => resp'.body[1].user = cookie[1]
       /\ \A cookie \in Cookies, fname \in Filenames, bytes \in FileBytes,
             extraction \in Extractions \cup {NotExtracted} :
             (resp'.op = "upload" /\ upload(cookie, fname, bytes, extraction))
                 => IF ~NamesIdentity(cookie)
                    THEN /\ resp'.status = 401
                         /\ resp'.extract = None
                         /\ users' = users
                         /\ user_contexts' = user_contexts
                    ELSE /\ resp'.status # 401
                         /\ resp'.body # None => resp'.body[1].user = cookie[1]
       /\ \A cookie \in Cookies :
             (resp'.op = "Cancel_membership" /\ cancel_membership(cookie))
                 => IF ~NamesIdentity(cookie)
                    THEN /\ resp'.status = 401
                         /\ users' = users
                         /\ user_contexts' = user_contexts
                    ELSE /\ resp'.status = 200
                         /\ users' = WithoutUser(users, cookie[1])]_vars

\* C12: logout is answered 200 and deletes the cookie whatever cookie the
\* request carries and whoever is registered, and leaves users and
\* user_contexts unchanged.
C12_LogoutAlwaysSucceeds ==
    [][\A cookie \in Cookies :
          (resp'.op = "logout" /\ logout(cookie))
              => /\ resp'.status = 200
                 /\ resp'.set_cookie = Some("delete")
                 /\ users' = users
                 /\ user_contexts' = user_contexts]_vars

\* a logout was answered 200 while nobody is registered (so no cookie of the
\* request could name a session) and a deregistered user's history exists
C12_Witness ==
    /\ resp.op = "logout"
    /\ resp.status = 200
    /\ users = << >>
    /\ \E username \in Usernames : hist[username].deregistered

\* C13: login is answered 200 with a cookie equal to the username when users
\* holds that very username and password pair, and 401 InvalidCredentials
\* with no cookie otherwise (so for a deregistered username until it is
\* registered again); either way users and user_contexts are unchanged.
C13_LoginIffExactMatch ==
    [][\A user \in User :
          (resp'.op = "login" /\ login(user))
              => /\ users' = users
                 /\ user_contexts' = user_contexts
                 /\ hist[user.username].deregistered => resp'.status = 401
                 /\ IF user \in Identities
                    THEN /\ resp'.status = 200
                         /\ resp'.set_cookie = Some(<<"set", user.username>>)
                    ELSE /\ resp'.status = 401
                         /\ resp'.detail = InvalidCredentials
                         /\ resp'.set_cookie = None]_vars

\* a login was refused while two identities with different passwords are
\* registered and a third username is deregistered
C13_Witness ==
    /\ resp.op = "login"
    /\ resp.status = 401
    /\ Len(users) = 2
    /\ users[1].password # users[2].password
    /\ \E username \in Usernames : hist[username].deregistered

\* C14: the context of a username changes only when an upload served as that
\* username succeeds, and then it is exactly the text just extracted, or when
\* a Cancel_membership of that username succeeds, and then it is gone; failed
\* requests, login, logout, query, sign and the requests of other usernames
\* leave it as it was.
C14_ContextChangesOnlyByOwner ==
    [][/\ \A username \in Usernames :
             ContextGet(user_contexts', username) # ContextGet(user_contexts, username)
                 => \/ /\ resp'.op = "upload"
                       /\ resp'.status = 200
                       /\ resp'.body[1].user = username
                    \/ /\ resp'.op = "Cancel_membership"
                       /\ resp'.status = 200
                       /\ cancel_membership(Some(username))
                       /\ ContextGet(user_contexts', username) = None
       /\ (resp'.op = "upload" /\ resp'.status = 200)
             => /\ hist'[resp'.body[1].user].lastDoc # None
                /\ ContextGet(user_contexts', resp'.body[1].user)
                      = hist'[resp'.body[1].user].lastDoc]_vars

\* an upload has replaced a document while another username holds its own
C14_Witness ==
    /\ resp.op = "upload"
    /\ resp.status = 200
    /\ \E u1 \in DOMAIN user_contexts, u2 \in DOMAIN user_contexts :
          /\ u1 # u2
          /\ resp.body[1].user = u1
          /\ user_contexts[u1] = "doc2"
          /\ user_contexts[u2] = "doc1"

\* needle occurs in hay
Contains(hay, needle) ==
    \E i \in 0..(Len(hay) - Len(needle)) : SubSeq(hay, i + 1, i + Len(needle)) = needle

\* text_length and preview of a successful upload's response are the length
\* of text and its first PreviewLen characters followed by "..."
LengthAndPreviewOf(body, text) ==
    LET n == IF Len(text) < PreviewLen THEN Len(text) ELSE PreviewLen IN
    /\ body.text_length = Len(text)
    /\ Len(body.preview) = n + Len("...")
    /\ \A i \in 1..n : SubSeq(body.preview, i, i) = SubSeq(text, i, i)
    /\ SubSeq(body.preview, n + 1, Len(body.preview)) = "..."

\* C15 as claimed: a successful upload answers the length of the extracted
\* text and its first 200 characters followed by "...", whatever the text's
\* length, and the response does not contain a text longer than 200 characters.
C15_PreviewNeverFullText ==
    [][\A cookie \in Cookies, extraction \in PreviewExtractions :
          (/\ resp'.op = "upload"
           /\ resp'.status = 200
           /\ upload(cookie, Some("a.PDF"), "%PDF", extraction))
              => /\ LengthAndPreviewOf(resp'.body[1], extraction.text)
                 /\ Len(extraction.text) > PreviewLen
                       => ~Contains(resp'.body[1].preview, extraction.text)]_vars

\* C15 as amended: a successful upload answers the length of the extracted
\* text and its first 200 characters followed by "...", whatever the text's
\* length; the response contains a text longer than 200 characters exactly
\* when the text's characters after the 200th are one, two or three dots.
C15_PreviewOfUpload ==
    [][\A cookie \in Cookies, extraction \in PreviewExtractions :
          (/\ resp'.op = "upload"
           /\ resp'.status = 200
           /\ upload(cookie, Some("a.PDF"), "%PDF", extraction))
              => /\ LengthAndPreviewOf(resp'.body[1], extraction.text)
                 /\ Len(extraction.text) > PreviewLen
                       => (Contains(resp'.body[1].preview, extraction.text)
                             <=> SubSeq(extraction.text, PreviewLen + 1, Len(extraction.text))
                                    \in {".", "..", "..."})]_vars

\* a document of 203 characters was uploaded and the preview is the document
C15_Witness ==
    /\ resp.op = "upload"
    /\ resp.status = 200
    /\ resp.body[1].text_length = PreviewLen + Len("...")
    /\ resp.body[1].preview = user_contexts[resp.body[1].user]

\* C16: upload answers by the first check that fails, in the order session
\* (401), filename (400 UnsupportedFormat), body (400 EmptyInput), extraction
\* (500 ExtractionError); the extraction is called exactly when the first
\* three pass, and user_contexts is written only when all four pass.
C16_UploadCheckOrder ==
    [][\A cookie \in Cookies, fname \in Filenames, bytes \in FileBytes,
          extraction \in Extractions :
          (resp'.op = "upload" /\ upload(cookie, fname, bytes, extraction))
              => LET session == Resolved(cookie)
                     pdf     == fname \notin NotPdfNames
                     body    == bytes # ""
                 IN  /\ resp'.status = 401 <=> ~session
                     /\ resp'.detail = UnsupportedFormat <=> session /\ ~pdf
                     /\ resp'.detail = EmptyInput <=> session /\ pdf /\ ~body
                     /\ resp'.status = 500 <=> session /\ pdf /\ body /\ ~extraction.ok
                     /\ resp'.status = 200 <=> session /\ pdf /\ body /\ extraction.ok
                     /\ resp'.status \in {400, 401, 500} => user_contexts' = user_contexts
                     /\ resp'.status = 400 => resp'.detail \in {UnsupportedFormat, EmptyInput}
                     /\ resp'.status = 500 => resp'.detail = ExtractionError \o extraction.detail
                     /\ resp'.extract # None <=> session /\ pdf /\ body
                     /\ resp'.status = 200
                           => user_contexts' = ContextPut(user_contexts, cookie[1], extraction.text)]_vars

\* an upload with a filename that is no PDF's and an empty body, by a
\* registered account, was answered by the filename's check
C16_Witness ==
    /\ resp.op = "upload"
    /\ resp.status = 400
    /\ resp.detail = UnsupportedFormat
    /\ Registered("alice")
    /\ "alice" \in DOMAIN user_contexts

\* C19 as claimed: the session-gated request that follows a successful login
\* and presents the cookie that login has set passes the session resolution
\* (it is not answered 401), for every username sign accepts.
C19_IssuedTokenResolves ==
    [][(resp.op = "login" /\ resp.status = 200)
          => \A cookie \in Cookies \ {None} :
                resp.set_cookie = Some(<<"set", cookie[1]>>)
                    => /\ \A q \in Queries, outcome \in LlmOutcomes \cup {NotAsked} :
                             (resp'.op = "query" /\ query(cookie, q, outcome))
                                 => resp'.status # 401
                       /\ \A fname \in Filenames :
                             (resp'.op = "upload" /\ upload(cookie, fname, NotRead, NotExtracted))
                                 => resp'.status # 401
                       /\ (resp'.op = "Cancel_membership" /\ cancel_membership(cookie))
                             => resp'.status # 401]_vars

\* C20 as claimed: a query that presents a cookie is answered 401 exactly when
\* users holds no identity of the cookie's username, whatever logins, logouts,
\* deregistrations and registrations came before it.
C20_ResolutionByTokenAndUsers ==
    [][\A cookie \in Cookies \ {None}, q \in Queries, outcome \in LlmOutcomes \cup {NotAsked} :
          (resp'.op = "query" /\ query(cookie, q, outcome))
              => (resp'.status = 401 <=> ~Registered(cookie[1]))]_vars

(***************************************************************************)
(* The claims about concurrent requests (SpecConc).                        *)
(***************************************************************************)
\* worker w is inside the deregistration of a resolved user
Deregistering(w) ==
    workers[w].pc \in {"cancel_filter", "cancel_rebind", "cancel_context", "cancel_delete"}

\* C9 as claimed: the step of a deregistration of U that removes U's identity
\* leaves no context of U behind for the requests running next to it to read,
\* and no query obtains the context of a username while the deregistration of
\* that username is between the removal of the identity and that of the context.
C9_DeregistrationAtomic ==
    [][/\ \A w \in Workers :
             (/\ Deregistering(w)
              /\ Registered(workers[w].username)
              /\ ~UsernameExists(users', workers[w].username))
                 => workers[w].username \notin DOMAIN user_contexts'
       /\ \A v \in Workers, outcome \in LlmOutcomes :
             (/\ workers[v].pc = "query_get"
              /\ \E w \in Workers \ {v} :
                    /\ workers[w].pc \in {"cancel_context", "cancel_delete"}
                    /\ workers[w].username = workers[v].username
              /\ QueryGet(v, outcome))
                 => resp'.llm = None]_vars

\* C10 as claimed: users holds at most one identity per username.
C10_UniqueUsernames ==
    \A i, j \in 1..Len(users) : users[i].username = users[j].username => i = j

\* C17 as claimed: an upload stores its text only for a username that has an
\* identity; when no deregistration of the username is under way at the store,
\* the username resolved at the start of the upload is still in users.
C17_UploadStoresForIdentity ==
    [][\A w \in Workers :
          (/\ workers[w].pc = "upload_store"
           /\ ~\E v \in Workers :
                  Deregistering(v) /\ workers[v].username = workers[w].username
           /\ UploadStore(w))
              => /\ workers[w].username \in DOMAIN user_contexts'
                 /\ UsernameExists(users', workers[w].username)]_vars

\* C18 as claimed: the step of a deregistration of U that binds the filtered
\* list to users keeps every identity of another username that users holds,
\* so the identity a successful sign(V) has appended stays in users.
C18_RegistrationNotLost ==
    [][\A w \in Workers :
          (workers[w].pc = "cancel_rebind" /\ CancelRebind(w))
              => \A i \in 1..Len(users) :
                    users[i].username # workers[w].username
                        => \E j \in 1..Len(users') : users'[j] = users[i]]_vars

=============================================================================
